---- MODULE Spec2Model ----
(***************************************************************************)
(* Group stage of the photo workflow (GroupStage, stages/groupStage.js):   *)
(* the signal importer, the metadata extractor, the temporal/exposure      *)
(* clusterer, the oversized-group splitter and the representative          *)
(* selector, as one state machine over the run of GroupStage.execute up to *)
(* the result it returns.  The files the run writes afterwards             *)
(* (directories, reports) are not part of the model.                       *)
(*                                                                         *)
(* Encodings.                                                              *)
(*  - A timestamp is an integer count of half minutes (30 s), so that the  *)
(*    truncation of differenceInMinutes is visible.                        *)
(*  - A number that the code only tests for truthiness or reads through    *)
(*    `x || 0` (iso, aperture, qualityRating, duplicateGroupId) is 0 when  *)
(*    it is null/undefined/absent in the program.  A rating of the report  *)
(*    is a positive number (the cull stage selects scores >= its positive  *)
(*    threshold), counted here in whole units.                             *)
(*  - A file is named by its place in the sorted list of findImageFiles.   *)
(*  - An aperture is in tenths of a stop (f/2.8 is 28).                    *)
(*  - A record made by createFallbackMetadata has no exposure object:      *)
(*    fallback = TRUE stands for `!image.exposure`.                        *)
(*  - createNewGroup sets no timeSpan key: hasTimeSpan = FALSE stands for   *)
(*    `group.timeSpan === undefined`.                                      *)
(*  - A group name `Group_NN_<stamp>` is the record [group, stamp, part]   *)
(*    with part = 0; `<name>_Part<k>` is the same record with part = k.    *)
(***************************************************************************)
EXTENDS Integers, Sequences, FiniteSets

\* ---------------------------------------------------------------- bounds
\* Longest input list of the exhaustive small family.
MaxLen == 3
\* How far above the split threshold the long inputs may go.
LargeExtra == 2
\* Longest file list of the extractor's inputs.
MaxFiles == 3
\* Longest file list of the selector's inputs.
MaxSelect == 4
\* Longest file list of the exposure check's inputs.
MaxExposure == 3

\* ------------------------------------------------------ program constants
maxTimeGap == 60
defaultTimeThreshold == 15
IsoTolerance == 400
ApertureTolerance == 15
SplitThreshold == 50
DefaultMaxSize == 25
MaxStandalone == 3

VARIABLES imageFiles, cullingReport, imageMetadata, stage2Results, idx,
          groups, currentGroup, finalGroups, representatives, result, pc

vars == <<imageFiles, cullingReport, imageMetadata, stage2Results, idx,
          groups, currentGroup, finalGroups, representatives, result, pc>>

\* ----------------------------------------------------------------- helpers
Abs(x) == IF x < 0 THEN -x ELSE x

Min(a, b) == IF a <= b THEN a ELSE b

\* Sum of a sequence of numbers (by halves, to keep the evaluation shallow).
RECURSIVE SumSeq(_)
SumSeq(s) ==
    IF Len(s) = 0 THEN 0
    ELSE IF Len(s) = 1 THEN s[1]
    ELSE LET h == Len(s) \div 2
         IN  SumSeq(SubSeq(s, 1, h)) + SumSeq(SubSeq(s, h + 1, Len(s)))

RECURSIVE ConcatAll(_)
ConcatAll(ss) == IF ss = <<>> THEN <<>> ELSE Head(ss) \o ConcatAll(Tail(ss))

Range(s) == {s[i] : i \in 1..Len(s)}

\* date-fns differenceInMinutes(left, right): whole minutes, truncated
\* toward zero.
DifferenceInMinutes(left, right) ==
    LET d == left - right
    IN  IF d >= 0 THEN d \div 2 ELSE -((-d) \div 2)

\* formatTimestamp: the ISO string cut to YYYY-MM-DD_HH-MM, i.e. the minute.
formatTimestamp(ts) == ts \div 2

\* currentGroup = null
NoGroup == [isNull |-> TRUE]

\* A group that has no parentGroup key (group numbers start at 1).
NoParent == [group |-> 0, stamp |-> 0, part |-> 0]

\* stage2Results = null
NoStage2 == [present |-> FALSE]

\* ------------------------------------------------------- signal importer
\* culling_report.json does not exist.
NoReport == [exists |-> FALSE]

\* qualityMap: selectedFiles.forEach(file => qualityMap.set(file.file, ...)),
\* a later entry for the same file replaces an earlier one.
qualityMap(report) ==
    LET sel == report.selectedFiles
    IN  [ f \in {sel[k].file : k \in 1..Len(sel)} |->
            LET k == CHOOSE k \in 1..Len(sel) :
                        /\ sel[k].file = f
                        /\ \A j \in (k + 1)..Len(sel) : sel[j].file # f
            IN  sel[k].rating ]

\* duplicateMap: every image of every duplicate group, mapped to the group
\* (the last one that lists it) and to whether it is the group's best.
duplicateMap(report) ==
    LET dgs == report.duplicateGroups
    IN  [ img \in UNION {dgs[k].images : k \in 1..Len(dgs)} |->
            LET k == CHOOSE k \in 1..Len(dgs) :
                        /\ img \in dgs[k].images
                        /\ \A j \in (k + 1)..Len(dgs) : img \notin dgs[j].images
            IN  [groupId |-> dgs[k].group_id, isBest |-> img = dgs[k].best] ]

\* Mutant of loadStage2Results: the index is built from whatever the report
\* holds, readable or not.
loadStage2Results_NoCatch(report) ==
    IF ~report.exists
    THEN NoStage2
    ELSE [ present          |-> TRUE,
           qualityMap       |-> qualityMap(report),
           duplicateMap     |-> duplicateMap(report),
           duplicateGroups  |-> report.duplicateGroups,
           groupingWarnings |-> report.groupingWarnings ]

\* loadStage2Results: null when the report does not exist, null from the
\* catch block when readJson or the indexing throws, else the index.
loadStage2Results(report) ==
    IF ~report.exists
    THEN NoStage2
    ELSE IF ~report.readable
    THEN NoStage2
    ELSE [ present          |-> TRUE,
           qualityMap       |-> qualityMap(report),
           duplicateMap     |-> duplicateMap(report),
           duplicateGroups  |-> report.duplicateGroups,
           groupingWarnings |-> report.groupingWarnings ]

\* ---------------------------------------------------- metadata extractor
\* A file without DateTimeOriginal, DateTime and CreateDate.
NoDate == -1

\* getBestTimestamp: the first EXIF date, else the modification time.
getBestTimestamp(file) == IF file.taken # NoDate THEN file.taken ELSE file.mtime

extractImageMetadata(file) ==
    [ fileName         |-> file.fileName,
      timestamp        |-> getBestTimestamp(file),
      camera           |-> file.camera,
      fallback         |-> FALSE,
      exposure         |-> [iso |-> file.iso, aperture |-> file.aperture],
      qualityRating    |-> 0,
      duplicateGroupId |-> 0,
      isDuplicateBest  |-> FALSE ]

\* Lines 333-351: the rating and the duplicate group of the index, by name.
EnrichFromStage2(meta, s2) ==
    LET rated == IF s2.present /\ meta.fileName \in DOMAIN s2.qualityMap
                 THEN [meta EXCEPT
                         !.qualityRating = s2.qualityMap[meta.fileName]]
                 ELSE meta
    IN  IF s2.present /\ meta.fileName \in DOMAIN s2.duplicateMap
        THEN [rated EXCEPT
                !.duplicateGroupId = s2.duplicateMap[meta.fileName].groupId,
                !.isDuplicateBest  = s2.duplicateMap[meta.fileName].isBest]
        ELSE rated

createFallbackMetadata(file) ==
    [ fileName         |-> file.fileName,
      timestamp        |-> file.mtime,
      camera           |-> "Unknown",
      fallback         |-> TRUE,
      exposure         |-> [iso |-> 0, aperture |-> 0],
      qualityRating    |-> 0,
      duplicateGroupId |-> 0,
      isDuplicateBest  |-> FALSE ]

\* metadata.sort((a, b) => new Date(a.timestamp) - new Date(b.timestamp)):
\* ascending, stable.
InsertByTimestamp(sorted, x) ==
    LET c == Cardinality({i \in 1..Len(sorted) :
                             sorted[i].timestamp <= x.timestamp})
    IN  SubSeq(sorted, 1, c) \o <<x>> \o SubSeq(sorted, c + 1, Len(sorted))

RECURSIVE SortIntoByTimestamp(_, _)
SortIntoByTimestamp(sorted, metadata) ==
    IF Len(metadata) = 0 \/ Len(sorted) < 0 THEN sorted
    ELSE IF Len(metadata) = 1 THEN InsertByTimestamp(sorted, metadata[1])
    ELSE LET h == Len(metadata) \div 2
         IN  SortIntoByTimestamp(
                 SortIntoByTimestamp(sorted, SubSeq(metadata, 1, h)),
                 SubSeq(metadata, h + 1, Len(metadata)))

\* fs.stat throws for the file: in extractImageMetadata and again in
\* createFallbackMetadata, which is called from the catch block.
StatFails(file) == file.read = "stat_error"

\* extractAllMetadata when no fs.stat of createFallbackMetadata throws.
extractAllMetadata(files, s2) ==
    SortIntoByTimestamp(<<>>,
        [ i \in 1..Len(files) |->
            IF files[i].read = "ok"
            THEN EnrichFromStage2(extractImageMetadata(files[i]), s2)
            ELSE createFallbackMetadata(files[i]) ])

\* ------------------------------------------------------------- clusterer
createNewGroup(firstImage, groupNumber) ==
    [ name           |-> [group |-> groupNumber,
                          stamp |-> formatTimestamp(firstImage.timestamp),
                          part  |-> 0],
      files          |-> <<firstImage>>,
      startTimestamp |-> firstImage.timestamp,
      lastTimestamp  |-> firstImage.timestamp,
      cameras        |-> {firstImage.camera},
      hasTimeSpan    |-> FALSE,
      timeSpan       |-> 0,
      parentGroup    |-> NoParent ]

\* Mutant of addToGroup: the image is put in front of the group's files.
addToGroup_Prepend(group, image) ==
    [ group EXCEPT
        !.files         = <<image>> \o @,
        !.lastTimestamp = image.timestamp,
        !.cameras       = @ \cup {image.camera},
        !.hasTimeSpan   = TRUE,
        !.timeSpan      = DifferenceInMinutes(image.timestamp,
                                              group.startTimestamp) ]

\* Mutant of addToGroup: timeSpan is measured from the previous last file.
addToGroup_SpanFromPrevious(group, image) ==
    [ group EXCEPT
        !.files         = Append(@, image),
        !.lastTimestamp = image.timestamp,
        !.cameras       = @ \cup {image.camera},
        !.hasTimeSpan   = TRUE,
        !.timeSpan      = DifferenceInMinutes(image.timestamp,
                                              group.lastTimestamp) ]

addToGroup(group, image) ==
    [ group EXCEPT
        !.files         = Append(@, image),
        !.lastTimestamp = image.timestamp,
        !.cameras       = @ \cup {image.camera},
        !.hasTimeSpan   = TRUE,
        !.timeSpan      = DifferenceInMinutes(image.timestamp,
                                              group.startTimestamp) ]

\* Mutant of isExposureSimilar: the ISO comparison is strict and the averages
\* are taken over all files of the group.
isExposureSimilar_StrictAllFiles(group, image) ==
    IF image.fallback \/ Len(group.files) = 0
    THEN TRUE
    ELSE LET files  == group.files
             n      == Len(files)
             sumISO == SumSeq([i \in 1..n |-> files[i].exposure.iso])
             sumAp  == SumSeq([i \in 1..n |-> files[i].exposure.aperture])
         IN  /\ \/ image.exposure.iso = 0
                \/ Abs(image.exposure.iso * n - sumISO) < IsoTolerance * n
             /\ \/ image.exposure.aperture = 0
                \/ Abs(image.exposure.aperture * n - sumAp)
                       <= ApertureTolerance * n

isExposureSimilar(group, image) ==
    IF image.fallback \/ Len(group.files) = 0
    THEN TRUE
    ELSE LET files == group.files
             \* group.files.filter(f => f.exposure && f.exposure.iso)
             groupExposures ==
                 {i \in 1..Len(files) :
                     ~files[i].fallback /\ files[i].exposure.iso # 0}
             n      == Cardinality(groupExposures)
             sumISO == SumSeq([i \in 1..Len(files) |->
                                IF i \in groupExposures
                                THEN files[i].exposure.iso ELSE 0])
             sumAp  == SumSeq([i \in 1..Len(files) |->
                                IF i \in groupExposures
                                THEN files[i].exposure.aperture ELSE 0])
             \* |x - sum/n| <= tol  <=>  |x*n - sum| <= tol*n   (n > 0)
             isoSimilar ==
                 \/ image.exposure.iso = 0
                 \/ Abs(image.exposure.iso * n - sumISO) <= IsoTolerance * n
             apertureSimilar ==
                 \/ image.exposure.aperture = 0
                 \/ Abs(image.exposure.aperture * n - sumAp)
                        <= ApertureTolerance * n
         IN  IF n = 0 THEN TRUE ELSE isoSimilar /\ apertureSimilar

\* Mutant of HighWarningVeto: `every` for `some`, the warning has to name all
\* files of the group.
HighWarningVeto_EveryGroupFile(group, image, s2) ==
    \E k \in 1..Len(s2.groupingWarnings) :
        LET warning == s2.groupingWarnings[k]
            groupFileNames == {f.fileName : f \in Range(group.files)}
        IN  /\ groupFileNames \subseteq warning.images
            /\ image.fileName \in warning.images
            /\ warning.severity = "high"

\* Mutant of HighWarningVeto: the severity of the warning is not looked at.
HighWarningVeto_AnySeverity(group, image, s2) ==
    \E k \in 1..Len(s2.groupingWarnings) :
        LET warning == s2.groupingWarnings[k]
            groupFileNames == {f.fileName : f \in Range(group.files)}
        IN  /\ warning.images \cap groupFileNames # {}
            /\ image.fileName \in warning.images

\* Step 4 of shouldKeepInSameGroup: some warning names a file of the group
\* and the image, and has severity 'high'.
HighWarningVeto(group, image, s2) ==
    \E k \in 1..Len(s2.groupingWarnings) :
        LET warning == s2.groupingWarnings[k]
            groupFileNames == {f.fileName : f \in Range(group.files)}
        IN  /\ warning.images \cap groupFileNames # {}
            /\ image.fileName \in warning.images
            /\ warning.severity = "high"

\* Legacy check: an issue of type grouping_warning names the image.  The
\* object loadStage2Results builds has no qualityIssues key.
LegacyVeto(image, s2) ==
    /\ "qualityIssues" \in DOMAIN s2
    /\ \E k \in 1..Len(s2.qualityIssues) :
          /\ s2.qualityIssues[k].type = "grouping_warning"
          /\ image.fileName \in s2.qualityIssues[k].images

\* Step 5: the group already holds a file of the image's duplicate group.
groupHasSameDuplicates(group, image) ==
    \E f \in Range(group.files) : f.duplicateGroupId = image.duplicateGroupId

\* Mutant of shouldKeepInSameGroup: the duplicate check (step 5) moved in
\* front of the time check.
shouldKeepInSameGroup_DuplicatesFirst(group, image, timeDiff, timeThreshold, s2) ==
    LET timeReasonable  == Abs(timeDiff) <= maxTimeGap
        exposureSimilar == isExposureSimilar(group, image)
        shouldGroup     == timeReasonable /\ exposureSimilar
    IN  IF /\ s2.present
           /\ image.duplicateGroupId # 0
           /\ groupHasSameDuplicates(group, image)
        THEN TRUE
        ELSE IF ~timeReasonable THEN FALSE
        ELSE IF shouldGroup /\ s2.present /\ HighWarningVeto(group, image, s2)
        THEN FALSE
        ELSE IF shouldGroup /\ s2.present /\ LegacyVeto(image, s2)
        THEN FALSE
        ELSE shouldGroup

\* Mutant of shouldKeepInSameGroup: step 5 left out.
shouldKeepInSameGroup_NoOverride(group, image, timeDiff, timeThreshold, s2) ==
    LET timeReasonable  == Abs(timeDiff) <= maxTimeGap
        exposureSimilar == isExposureSimilar(group, image)
        shouldGroup     == timeReasonable /\ exposureSimilar
    IN  IF ~timeReasonable THEN FALSE
        ELSE IF shouldGroup /\ s2.present /\ HighWarningVeto(group, image, s2)
        THEN FALSE
        ELSE IF shouldGroup /\ s2.present /\ LegacyVeto(image, s2)
        THEN FALSE
        ELSE shouldGroup

\* Mutant of shouldKeepInSameGroup: the time check compares with the
\* timeThreshold argument.
shouldKeepInSameGroup_UsesThreshold(group, image, timeDiff, timeThreshold, s2) ==
    LET timeReasonable  == Abs(timeDiff) <= timeThreshold
        exposureSimilar == isExposureSimilar(group, image)
        shouldGroup     == timeReasonable /\ exposureSimilar
    IN  IF ~timeReasonable THEN FALSE
        ELSE IF shouldGroup /\ s2.present /\ HighWarningVeto(group, image, s2)
        THEN FALSE
        ELSE IF shouldGroup /\ s2.present /\ LegacyVeto(image, s2)
        THEN FALSE
        ELSE IF /\ s2.present
                /\ image.duplicateGroupId # 0
                /\ groupHasSameDuplicates(group, image)
        THEN TRUE
        ELSE shouldGroup

shouldKeepInSameGroup(group, image, timeDiff, timeThreshold, s2) ==
    LET timeReasonable  == Abs(timeDiff) <= maxTimeGap
        exposureSimilar == isExposureSimilar(group, image)
        shouldGroup     == timeReasonable /\ exposureSimilar
    IN  IF ~timeReasonable THEN FALSE
        ELSE IF shouldGroup /\ s2.present /\ HighWarningVeto(group, image, s2)
        THEN FALSE
        ELSE IF shouldGroup /\ s2.present /\ LegacyVeto(image, s2)
        THEN FALSE
        ELSE IF /\ s2.present
                /\ image.duplicateGroupId # 0
                /\ groupHasSameDuplicates(group, image)
        THEN TRUE
        ELSE shouldGroup

\* One iteration of the loop of createTemporalGroups on st = [groups,
\* currentGroup].
ClusterStep(st, image, timeThreshold, s2) ==
    IF st.currentGroup = NoGroup
    THEN [st EXCEPT !.currentGroup = createNewGroup(image, Len(st.groups) + 1)]
    ELSE IF shouldKeepInSameGroup(
                st.currentGroup, image,
                DifferenceInMinutes(image.timestamp,
                                    st.currentGroup.lastTimestamp),
                timeThreshold, s2)
    THEN [st EXCEPT !.currentGroup = addToGroup(@, image)]
    ELSE [ groups       |-> Append(st.groups, st.currentGroup),
           currentGroup |-> createNewGroup(image, Len(st.groups) + 2) ]

\* The loop over images, left to right (the list is cut in halves, and st is
\* looked at before the descent, to keep the evaluation shallow).
RECURSIVE ClusterLoop(_, _, _, _)
ClusterLoop(st, images, timeThreshold, s2) ==
    IF Len(images) = 0 \/ Len(st.groups) < 0 THEN st
    ELSE IF Len(images) = 1 THEN ClusterStep(st, images[1], timeThreshold, s2)
    ELSE LET h == Len(images) \div 2
         IN  ClusterLoop(
                 ClusterLoop(st, SubSeq(images, 1, h), timeThreshold, s2),
                 SubSeq(images, h + 1, Len(images)), timeThreshold, s2)

\* Mutant of createTemporalGroups: the final push is not guarded by
\* `if (currentGroup)`.
createTemporalGroups_PushAlways(images, timeThreshold, s2) ==
    LET st == ClusterLoop([groups |-> <<>>, currentGroup |-> NoGroup],
                          images, timeThreshold, s2)
    IN  Append(st.groups, st.currentGroup)

\* createTemporalGroups as a function of its arguments.
createTemporalGroups(images, timeThreshold, s2) ==
    LET st == ClusterLoop([groups |-> <<>>, currentGroup |-> NoGroup],
                          images, timeThreshold, s2)
    IN  IF st.currentGroup # NoGroup
        THEN Append(st.groups, st.currentGroup)
        ELSE st.groups

\* -------------------------------------------------------------- splitter
createSubGroup(parentGroup, files, subGroupNumber) ==
    [ name           |-> [parentGroup.name EXCEPT !.part = subGroupNumber],
      files          |-> files,
      startTimestamp |-> files[1].timestamp,
      lastTimestamp  |-> files[Len(files)].timestamp,
      cameras        |-> {f.camera : f \in Range(files)},
      hasTimeSpan    |-> TRUE,
      timeSpan       |-> DifferenceInMinutes(files[Len(files)].timestamp,
                                             files[1].timestamp),
      parentGroup    |-> parentGroup.name ]

\* Mutant of splitLargeGroup: the parts are numbered from 0.
splitLargeGroup_NumberedFromZero(group, maxSize) ==
    LET files   == group.files
        nChunks == (Len(files) + maxSize - 1) \div maxSize
    IN  [ k \in 1..nChunks |->
            createSubGroup(group,
                           SubSeq(files, (k - 1) * maxSize + 1,
                                  Min(k * maxSize, Len(files))),
                           k - 1) ]

\* splitLargeGroup: contiguous chunks of maxSize files.
splitLargeGroup(group, maxSize) ==
    LET files   == group.files
        nChunks == (Len(files) + maxSize - 1) \div maxSize
    IN  [ k \in 1..nChunks |->
            createSubGroup(group,
                           SubSeq(files, (k - 1) * maxSize + 1,
                                  Min(k * maxSize, Len(files))),
                           k) ]

\* Keys of the Map built by files.forEach, in insertion order: the distinct
\* truthy duplicateGroupIds in order of first occurrence.
FirstIndex(files, id) ==
    CHOOSE i \in 1..Len(files) :
        /\ files[i].duplicateGroupId = id
        /\ \A j \in 1..(i - 1) : files[j].duplicateGroupId # id

DuplicateIdOrder(files) ==
    LET ids == {files[i].duplicateGroupId : i \in 1..Len(files)} \ {0}
    IN  [ k \in 1..Cardinality(ids) |->
            CHOOSE id \in ids :
                Cardinality({o \in ids : FirstIndex(files, o)
                                            < FirstIndex(files, id)}) = k - 1 ]

\* The files whose duplicateGroupId is id, in original order (the list is
\* cut in halves to keep the evaluation shallow).
RECURSIVE FilesWithDuplicateId(_, _)
FilesWithDuplicateId(files, id) ==
    IF Len(files) = 0 THEN <<>>
    ELSE IF Len(files) = 1
    THEN IF files[1].duplicateGroupId = id THEN <<files[1]>> ELSE <<>>
    ELSE LET h == Len(files) \div 2
         IN  FilesWithDuplicateId(SubSeq(files, 1, h), id)
             \o FilesWithDuplicateId(SubSeq(files, h + 1, Len(files)), id)

\* Values of that Map: for each key, its files in original order.
DuplicateSets(files) ==
    LET order == DuplicateIdOrder(files)
    IN  [k \in 1..Len(order) |-> FilesWithDuplicateId(files, order[k])]

\* Files with a falsy duplicateGroupId.
StandaloneFiles(files) == FilesWithDuplicateId(files, 0)

FlushSubGroup(group, st) ==
    [ subGroups |-> Append(st.subGroups,
                           createSubGroup(group, st.current, st.number)),
      current   |-> <<>>,
      number    |-> st.number + 1 ]

\* First loop of splitLargeGroupIntelligently, from the k-th duplicate set.
RECURSIVE PackDuplicateSets(_, _, _, _, _)
PackDuplicateSets(group, sets, k, st, maxSize) ==
    IF k > Len(sets) THEN st
    ELSE LET duplicateFiles == sets[k]
             st1 == IF /\ Len(st.current) + Len(duplicateFiles) > maxSize
                       /\ Len(st.current) > 0
                    THEN FlushSubGroup(group, st)
                    ELSE st
         IN  PackDuplicateSets(group, sets, k + 1,
                               [st1 EXCEPT !.current = @ \o duplicateFiles],
                               maxSize)

\* Mutant of PackOneStandalone: `>` for `>=`, the buffer is flushed one file
\* late.
PackOneStandalone_FlushLate(group, file, st, maxSize) ==
    LET st1 == IF Len(st.current) > maxSize
               THEN FlushSubGroup(group, st)
               ELSE st
    IN  [st1 EXCEPT !.current = Append(@, file)]

\* Body of the second loop, for one standalone file.
PackOneStandalone(group, file, st, maxSize) ==
    LET st1 == IF Len(st.current) >= maxSize
               THEN FlushSubGroup(group, st)
               ELSE st
    IN  [st1 EXCEPT !.current = Append(@, file)]

\* Second loop: the body applied to the standalone files from left to right
\* (the list is cut in halves, and st is looked at before the descent, to
\* keep the evaluation shallow).
RECURSIVE PackStandalone(_, _, _, _)
PackStandalone(group, standalone, st, maxSize) ==
    IF Len(standalone) = 0 \/ st.number = 0 THEN st
    ELSE IF Len(standalone) = 1
    THEN PackOneStandalone(group, standalone[1], st, maxSize)
    ELSE LET h == Len(standalone) \div 2
         IN  PackStandalone(
                 group, SubSeq(standalone, h + 1, Len(standalone)),
                 PackStandalone(group, SubSeq(standalone, 1, h), st, maxSize),
                 maxSize)

\* Mutant of splitLargeGroupIntelligently: the remaining files are not
\* flushed after the second loop.
splitLargeGroupIntelligently_NoFinalFlush(group, s2, maxSize) ==
    IF ~s2.present \/ "duplicateGroups" \notin DOMAIN s2
    THEN splitLargeGroup(group, maxSize)
    ELSE LET st0 == [subGroups |-> <<>>, current |-> <<>>, number |-> 1]
             st1 == PackDuplicateSets(group, DuplicateSets(group.files), 1,
                                      st0, maxSize)
             st2 == PackStandalone(group, StandaloneFiles(group.files),
                                   st1, maxSize)
         IN  st2.subGroups

\* Mutant of splitLargeGroupIntelligently: contiguous chunks whatever the
\* duplicate groups.
splitLargeGroupIntelligently_Chunks(group, s2, maxSize) ==
    splitLargeGroup(group, maxSize)

splitLargeGroupIntelligently(group, s2, maxSize) ==
    IF ~s2.present \/ "duplicateGroups" \notin DOMAIN s2
    THEN splitLargeGroup(group, maxSize)
    ELSE LET st0 == [subGroups |-> <<>>, current |-> <<>>, number |-> 1]
             st1 == PackDuplicateSets(group, DuplicateSets(group.files), 1,
                                      st0, maxSize)
             st2 == PackStandalone(group, StandaloneFiles(group.files),
                                   st1, maxSize)
         IN  IF Len(st2.current) > 0
             THEN FlushSubGroup(group, st2).subGroups
             ELSE st2.subGroups

\* Mutant of refineGroupsWithSimilarity: groups are split above maxSize
\* files, not above 50.
refineGroupsWithSimilarity_SplitAboveMaxSize(temporalGroups, s2) ==
    ConcatAll([k \in 1..Len(temporalGroups) |->
                 LET group == temporalGroups[k]
                 IN  IF Len(group.files) > DefaultMaxSize
                     THEN splitLargeGroupIntelligently(group, s2,
                                                       DefaultMaxSize)
                     ELSE <<group>>])

\* Mutant of refineGroupsWithSimilarity: a cluster of exactly 50 files is
\* split too.
refineGroupsWithSimilarity_AtThreshold(temporalGroups, s2) ==
    ConcatAll([k \in 1..Len(temporalGroups) |->
                 LET group == temporalGroups[k]
                 IN  IF Len(group.files) >= SplitThreshold
                     THEN splitLargeGroupIntelligently(group, s2,
                                                       DefaultMaxSize)
                     ELSE <<group>>])

refineGroupsWithSimilarity(temporalGroups, s2) ==
    ConcatAll([k \in 1..Len(temporalGroups) |->
                 LET group == temporalGroups[k]
                 IN  IF Len(group.files) > SplitThreshold
                     THEN splitLargeGroupIntelligently(group, s2,
                                                       DefaultMaxSize)
                     ELSE <<group>>])

\* -------------------------------------------------------------- selector
\* Array.prototype.sort with (a, b) => (b.qualityRating || 0) -
\* (a.qualityRating || 0): descending by rating, stable.
InsertByRating(sorted, x) ==
    LET c == Cardinality({i \in 1..Len(sorted) :
                             sorted[i].qualityRating >= x.qualityRating})
    IN  SubSeq(sorted, 1, c) \o <<x>> \o SubSeq(sorted, c + 1, Len(sorted))

\* files inserted one by one, left to right, into the sorted list (the list
\* is cut in halves, and sorted is looked at before the descent, to keep the
\* evaluation shallow).
RECURSIVE SortInto(_, _)
SortInto(sorted, files) ==
    IF Len(files) = 0 \/ Len(sorted) < 0 THEN sorted
    ELSE IF Len(files) = 1 THEN InsertByRating(sorted, files[1])
    ELSE LET h == Len(files) \div 2
         IN  SortInto(SortInto(sorted, SubSeq(files, 1, h)),
                      SubSeq(files, h + 1, Len(files)))

SortByRating(files) == SortInto(<<>>, files)

\* Mutant of BestFile: the isDuplicateBest flag is not looked at.
BestFile_IgnoresFlag(files) == SortByRating(files)[1]

\* files.find(f => f.isDuplicateBest) || files.sort(...)[0]
BestFile(files) ==
    IF \E i \in 1..Len(files) : files[i].isDuplicateBest
    THEN files[CHOOSE i \in 1..Len(files) :
                   /\ files[i].isDuplicateBest
                   /\ \A j \in 1..(i - 1) : ~files[j].isDuplicateBest]
    ELSE SortByRating(files)[1]

DuplicateRepresentative(group, files) ==
    LET bestFile == BestFile(files)
    IN  [ fileName                  |-> bestFile.fileName,
          groupName                 |-> group.name,
          duplicateGroupId          |-> files[1].duplicateGroupId,
          isDuplicateRepresentative |-> TRUE,
          duplicateCount            |-> Len(files),
          qualityRating             |-> bestFile.qualityRating ]

StandaloneRepresentative(group, file) ==
    [ fileName                  |-> file.fileName,
      groupName                 |-> group.name,
      duplicateGroupId          |-> 0,
      isDuplicateRepresentative |-> FALSE,
      duplicateCount            |-> 1,
      qualityRating             |-> file.qualityRating ]

\* Mutant of BestStandalone: the slice is left out.
BestStandalone_NoSlice(files) == SortByRating(StandaloneFiles(files))

\* Mutant of BestStandalone: the sort is left out.
BestStandalone_Unsorted(files) ==
    LET standalone == StandaloneFiles(files)
    IN  SubSeq(standalone, 1, Min(MaxStandalone, Len(standalone)))

\* .slice(0, 3) of the sorted standalone images
BestStandalone(files) ==
    LET sorted == SortByRating(StandaloneFiles(files))
    IN  SubSeq(sorted, 1, Min(MaxStandalone, Len(sorted)))

GroupRepresentatives(group) ==
    LET duplicateGroups == DuplicateSets(group.files)
        bestStandalone  == BestStandalone(group.files)
    IN  [k \in 1..Len(duplicateGroups) |->
           DuplicateRepresentative(group, duplicateGroups[k])]
        \o [k \in 1..Len(bestStandalone) |->
              StandaloneRepresentative(group, bestStandalone[k])]

\* The arrays the loop body of selectGroupRepresentatives works on, after its
\* two in-place sorts: group.files, the arrays of the duplicateGroups Map and
\* standaloneImages.  The Map arrays and standaloneImages are new arrays
\* filled by push (lines 876-885), and the sorts of lines 889 and 904 are
\* called on them; a Map array is sorted only when find gives no best file.
SelectionArrays(group) ==
    LET duplicateGroups == DuplicateSets(group.files)
    IN  [ files            |-> group.files,
          duplicateGroups  |->
              [ k \in 1..Len(duplicateGroups) |->
                  IF \E f \in Range(duplicateGroups[k]) : f.isDuplicateBest
                  THEN duplicateGroups[k]
                  ELSE SortByRating(duplicateGroups[k]) ],
          standaloneImages |-> SortByRating(StandaloneFiles(group.files)) ]

\* Mutant of filesAfterSelection: the sort is called on group.files.
filesAfterSelection_SortedInPlace(group) == SortByRating(group.files)

\* group.files when selectGroupRepresentatives has returned.
filesAfterSelection(group) == SelectionArrays(group).files

selectGroupRepresentatives(gs, s2) ==
    ConcatAll([k \in 1..Len(gs) |-> GroupRepresentatives(gs[k])])

\* ----------------------------------------------------------------- inputs
\* Time steps between consecutive records, in half minutes: 30 s, 60 min 30 s
\* (60 whole minutes) and 61 min.
Deltas == {1, 2 * maxTimeGap + 1, 2 * maxTimeGap + 2}

\* What exifr.parse gives for a file of the small family (ISO 100 or ISO 3200
\* at f/2.8), and the duplicate group the report lists the file in.
SmallKinds ==
    { [read |-> "ok", iso |-> 100,  aperture |-> 28, dup |-> 0],
      [read |-> "ok", iso |-> 100,  aperture |-> 28, dup |-> 1],
      [read |-> "ok", iso |-> 3200, aperture |-> 28, dup |-> 0],
      [read |-> "ok", iso |-> 3200, aperture |-> 28, dup |-> 1] }

\* A file on disk, as exifr.parse and fs.stat see it.  Files are named by
\* their place in the sorted list findImageFiles returns.
MkFile(i, taken, mtime, kind) ==
    [ fileName |-> i,
      read     |-> kind.read,
      taken    |-> taken,
      mtime    |-> mtime,
      camera   |-> IF kind.iso = 100 THEN "CamA" ELSE "CamB",
      iso      |-> kind.iso,
      aperture |-> kind.aperture ]

\* selectedFiles of a report: the rated files (ratings[i] # 0), by name.
SelectedFiles(ratings) ==
    LET rated == {i \in 1..Len(ratings) : ratings[i] # 0}
    IN  [ k \in 1..Cardinality(rated) |->
            LET i == CHOOSE i \in rated :
                        Cardinality({j \in rated : j < i}) = k - 1
            IN  [file |-> i, rating |-> ratings[i]] ]

\* culling_report.json: dups[i] is the duplicate group that lists file i (0
\* for none), ratings[i] its rating (0 for none), bests[id] the best image of
\* group id (0 for none).
MkReport(readable, dups, ratings, bests, warnings) ==
    [ exists           |-> TRUE,
      readable         |-> readable,
      selectedFiles    |-> SelectedFiles(ratings),
      duplicateGroups  |->
          LET order == DuplicateIdOrder(
                           [i \in 1..Len(dups) |-> [duplicateGroupId |-> dups[i]]])
          IN  [ k \in 1..Len(order) |->
                  [ group_id |-> order[k],
                    images   |-> {i \in 1..Len(dups) : dups[i] = order[k]},
                    best     |-> bests[order[k]] ] ],
      groupingWarnings |-> warnings ]

\* No image is the best of its group.
NoBests == <<0, 0>>

SmallFiles(n, kinds, dts) ==
    [ i \in 1..n |->
        LET ts == SumSeq([j \in 1..(i - 1) |-> dts[j + 1]])
        IN  MkFile(i, ts, ts, kinds[i]) ]

\* No warning, or one warning naming two files of the input.
SmallWarnings(n) ==
    {<<>>} \cup
    { <<[images |-> {a, b}, severity |-> sev]>> :
        a \in 1..n, b \in 1..n, sev \in {"high", "low"} }

\* Long inputs: up to three runs of records 30 s apart with the same
\* exposure, each run standalone or one duplicate group.
LargeCounts == {1, DefaultMaxSize, DefaultMaxSize + 1}

LargeSegments ==
    UNION { [1..m -> [count : LargeCounts, dup : 0..2]] : m \in 1..3 }

SegmentTotal(segs) == SumSeq([k \in 1..Len(segs) |-> segs[k].count])

\* The segment the i-th record of the expansion lies in.
SegmentOf(segs, i) ==
    CHOOSE k \in 1..Len(segs) :
        /\ SegmentTotal(SubSeq(segs, 1, k - 1)) < i
        /\ i <= SegmentTotal(SubSeq(segs, 1, k))

LargeFiles(segs) ==
    [ i \in 1..SegmentTotal(segs) |->
        MkFile(i, i, i, [read |-> "ok", iso |-> 100, aperture |-> 28]) ]

LargeReport(segs) ==
    MkReport(TRUE,
             [i \in 1..SegmentTotal(segs) |-> segs[SegmentOf(segs, i)].dup],
             [i \in 1..SegmentTotal(segs) |-> (i % 3) + 1],
             NoBests, <<>>)

\* Inputs of the extractor: files whose EXIF cannot be parsed or that fs.stat
\* cannot reach, with modification times that differ from the EXIF dates and
\* from the order of the names.
ExtractKinds ==
    { [read |-> "ok",         taken |-> 2,      mtime |-> 250, dup |-> 1],
      [read |-> "ok",         taken |-> NoDate, mtime |-> 1,   dup |-> 0],
      [read |-> "ok",         taken |-> NoDate, mtime |-> 126, dup |-> 1],
      [read |-> "exif_error", taken |-> 2,      mtime |-> 1,   dup |-> 1],
      [read |-> "exif_error", taken |-> NoDate, mtime |-> 126, dup |-> 0],
      [read |-> "stat_error", taken |-> 2,      mtime |-> 1,   dup |-> 0] }

ExtractFiles(n, kinds) ==
    [ i \in 1..n |->
        MkFile(i, kinds[i].taken, kinds[i].mtime,
               [read |-> kinds[i].read, iso |-> 100, aperture |-> 28]) ]

\* Inputs of the selector: files 30 s apart with the same exposure, rated 1
\* or 2 or not rated; the first d files are duplicate group 1, with or
\* without a best image, and the others are standalone.
SelectRatings == {0, 1, 2}

SelectFiles(n) ==
    [ i \in 1..n |->
        MkFile(i, i, i, [read |-> "ok", iso |-> 100, aperture |-> 28]) ]

\* Inputs of the exposure check: files 30 s apart, no report, with ISO 100,
\* 500, 501 or 900 or no ISO tag, and f/2.8, f/4.3 or f/4.4 or no aperture
\* tag, or with EXIF that cannot be parsed (a record without exposure).
ExposureKinds ==
    { [read |-> "ok",         iso |-> 100, aperture |-> 28],
      [read |-> "ok",         iso |-> 500, aperture |-> 28],
      [read |-> "ok",         iso |-> 501, aperture |-> 28],
      [read |-> "ok",         iso |-> 900, aperture |-> 28],
      [read |-> "ok",         iso |-> 100, aperture |-> 43],
      [read |-> "ok",         iso |-> 100, aperture |-> 44],
      [read |-> "ok",         iso |-> 0,   aperture |-> 28],
      [read |-> "ok",         iso |-> 100, aperture |-> 0],
      [read |-> "exif_error", iso |-> 0,   aperture |-> 0] }

ExposureFiles(n, kinds) == [i \in 1..n |-> MkFile(i, i, i, kinds[i])]

\* Inputs with a cluster around the split threshold next to other clusters:
\* a run of big records at ISO 100, 30 s apart, with lead records at
\* ISO 3200 before it and trail records at ISO 3200 after it.
TwoClusterFiles(lead, big, trail) ==
    [ i \in 1..(lead + big + trail) |->
        MkFile(i, i, i,
               [ read     |-> "ok",
                 iso      |-> IF lead < i /\ i <= lead + big
                              THEN 100 ELSE 3200,
                 aperture |-> 28 ]) ]

\* The report for them: the last two records of the run are duplicate group
\* 1 (dupLate), or the report lists no duplicate.
TwoClusterReport(lead, big, trail, dupLate) ==
    MkReport(TRUE,
             [ i \in 1..(lead + big + trail) |->
                 IF dupLate /\ i \in {lead + big - 1, lead + big}
                 THEN 1 ELSE 0 ],
             [i \in 1..(lead + big + trail) |-> 0],
             NoBests, <<>>)

\* --------------------------------------------------------------- machine
\* execute has not returned.
NoResult == [pending |-> TRUE]

InitRun(files, report) ==
    /\ imageFiles = files
    /\ cullingReport = report
    /\ imageMetadata = <<>>
    /\ stage2Results = NoStage2
    /\ idx = 0
    /\ groups = <<>>
    /\ currentGroup = NoGroup
    /\ finalGroups = <<>>
    /\ representatives = <<>>
    /\ result = NoResult
    /\ pc = "load"

InitSmall ==
    \E n \in 0..MaxLen :
      \E kinds \in [1..n -> SmallKinds], dts \in [2..n -> Deltas],
         present \in BOOLEAN :
        \E warnings \in SmallWarnings(n) :
          /\ present \/ (warnings = <<>> /\ \A i \in 1..n : kinds[i].dup = 0)
          \* the runs whose first file is at ISO 3200 are the mirror images
          \* of those whose first file is at ISO 100
          /\ n >= 1 => kinds[1].iso = 100
          /\ \A k \in 1..Len(warnings) : Cardinality(warnings[k].images) = 2
          /\ InitRun(SmallFiles(n, kinds, dts),
                     IF present
                     THEN MkReport(TRUE, [i \in 1..n |-> kinds[i].dup],
                                   [i \in 1..n |-> 0], NoBests, warnings)
                     ELSE NoReport)

InitLarge ==
    \E segs \in LargeSegments, present \in BOOLEAN :
        /\ SegmentTotal(segs) <= SplitThreshold + LargeExtra
        /\ present \/ \A k \in 1..Len(segs) : segs[k].dup = 0
        /\ InitRun(LargeFiles(segs),
                   IF present THEN LargeReport(segs) ELSE NoReport)

InitExtract ==
    \E n \in 1..MaxFiles :
      \E kinds \in [1..n -> ExtractKinds],
         status \in {"absent", "unreadable", "valid"} :
        InitRun(ExtractFiles(n, kinds),
                IF status = "absent"
                THEN NoReport
                ELSE MkReport(status = "valid", [i \in 1..n |-> kinds[i].dup],
                              [i \in 1..n |-> (i % 2) + 1], <<1, 0>>, <<>>))

InitSelect ==
    \E n \in 1..MaxSelect :
      \E d \in 0..n, ratings \in [1..n -> SelectRatings], best \in 0..n :
        /\ best <= d
        /\ InitRun(SelectFiles(n),
                   MkReport(TRUE, [i \in 1..n |-> IF i <= d THEN 1 ELSE 0],
                            ratings, <<best, 0>>, <<>>))

InitExposure ==
    \E n \in 1..MaxExposure :
      \E kinds \in [1..n -> ExposureKinds] :
        InitRun(ExposureFiles(n, kinds), NoReport)

InitTwoClusters ==
    \E lead \in 0..1, trail \in 0..1,
       big \in {SplitThreshold, SplitThreshold + 1},
       present \in BOOLEAN, dupLate \in BOOLEAN :
        /\ lead + trail >= 1
        /\ lead + big + trail <= SplitThreshold + LargeExtra
        /\ present \/ ~dupLate
        /\ InitRun(TwoClusterFiles(lead, big, trail),
                   IF present
                   THEN TwoClusterReport(lead, big, trail, dupLate)
                   ELSE NoReport)

Init ==
    \/ InitSmall
    \/ InitLarge
    \/ InitExtract
    \/ InitSelect
    \/ InitExposure
    \/ InitTwoClusters

\* execute, line 45.
LoadStage2Results ==
    /\ pc = "load"
    /\ stage2Results' = loadStage2Results(cullingReport)
    /\ pc' = "extract"
    /\ UNCHANGED <<imageFiles, cullingReport, imageMetadata, idx, groups,
                   currentGroup, finalGroups, representatives, result>>

\* execute, lines 56-69: no image file, nothing is grouped.
NoImagesFound ==
    /\ pc = "extract"
    /\ Len(imageFiles) = 0
    /\ result' = [success |-> TRUE, filesProcessed |-> 0, groupsCreated |-> 0]
    /\ pc' = "done"
    /\ UNCHANGED <<imageFiles, cullingReport, imageMetadata, stage2Results,
                   idx, groups, currentGroup, finalGroups, representatives>>

\* execute, line 77.
ExtractAllMetadata ==
    /\ pc = "extract"
    /\ Len(imageFiles) > 0
    /\ \A i \in 1..Len(imageFiles) : ~StatFails(imageFiles[i])
    /\ imageMetadata' = extractAllMetadata(imageFiles, stage2Results)
    /\ pc' = "cluster"
    /\ UNCHANGED <<imageFiles, cullingReport, stage2Results, idx, groups,
                   currentGroup, finalGroups, representatives, result>>

\* The fs.stat of createFallbackMetadata throws inside the catch block of
\* extractAllMetadata (line 371); the catch block of execute (lines 203-216)
\* returns the failure.
ExtractAllMetadataThrows ==
    /\ pc = "extract"
    /\ Len(imageFiles) > 0
    /\ \E i \in 1..Len(imageFiles) : StatFails(imageFiles[i])
    /\ result' = [success |-> FALSE, filesProcessed |-> 0]
    /\ pc' = "done"
    /\ UNCHANGED <<imageFiles, cullingReport, imageMetadata, stage2Results,
                   idx, groups, currentGroup, finalGroups, representatives>>

\* One iteration of the loop of createTemporalGroups, by its three branches.
StartFirstGroup ==
    /\ pc = "cluster"
    /\ idx < Len(imageMetadata)
    /\ currentGroup = NoGroup
    /\ currentGroup' = createNewGroup(imageMetadata[idx + 1], Len(groups) + 1)
    /\ idx' = idx + 1
    /\ UNCHANGED <<imageFiles, cullingReport, imageMetadata, stage2Results,
                   groups, finalGroups, representatives, result, pc>>

SameGroup(image) ==
    shouldKeepInSameGroup(
        currentGroup, image,
        DifferenceInMinutes(image.timestamp, currentGroup.lastTimestamp),
        defaultTimeThreshold, stage2Results)

AddToCurrentGroup ==
    /\ pc = "cluster"
    /\ idx < Len(imageMetadata)
    /\ currentGroup # NoGroup
    /\ SameGroup(imageMetadata[idx + 1])
    /\ currentGroup' = addToGroup(currentGroup, imageMetadata[idx + 1])
    /\ idx' = idx + 1
    /\ UNCHANGED <<imageFiles, cullingReport, imageMetadata, stage2Results,
                   groups, finalGroups, representatives, result, pc>>

StartNewGroup ==
    /\ pc = "cluster"
    /\ idx < Len(imageMetadata)
    /\ currentGroup # NoGroup
    /\ ~SameGroup(imageMetadata[idx + 1])
    /\ groups' = Append(groups, currentGroup)
    /\ currentGroup' = createNewGroup(imageMetadata[idx + 1], Len(groups') + 1)
    /\ idx' = idx + 1
    /\ UNCHANGED <<imageFiles, cullingReport, imageMetadata, stage2Results,
                   finalGroups, representatives, result, pc>>

\* End of createTemporalGroups: the final group is pushed.
FinishClustering ==
    /\ pc = "cluster"
    /\ Len(imageMetadata) > 0
    /\ idx = Len(imageMetadata)
    /\ groups' = IF currentGroup # NoGroup THEN Append(groups, currentGroup)
                 ELSE groups
    /\ pc' = "refine"
    /\ UNCHANGED <<imageFiles, cullingReport, imageMetadata, stage2Results,
                   idx, currentGroup, finalGroups, representatives, result>>

RefineGroups ==
    /\ pc = "refine"
    /\ finalGroups' = refineGroupsWithSimilarity(groups, stage2Results)
    /\ pc' = "select"
    /\ UNCHANGED <<imageFiles, cullingReport, imageMetadata, stage2Results,
                   idx, groups, currentGroup, representatives, result>>

\* execute, lines 86-95: the representatives and the result of the run.
SelectRepresentatives ==
    /\ pc = "select"
    /\ representatives' = selectGroupRepresentatives(finalGroups, stage2Results)
    /\ result' = [ success        |-> TRUE,
                   filesProcessed |-> Len(imageFiles),
                   groupsCreated  |-> Len(finalGroups) ]
    /\ finalGroups' = [ k \in 1..Len(finalGroups) |->
                          [finalGroups[k] EXCEPT
                              !.files = filesAfterSelection(finalGroups[k])] ]
    /\ pc' = "done"
    /\ UNCHANGED <<imageFiles, cullingReport, imageMetadata, stage2Results,
                   idx, groups, currentGroup>>

Next ==
    \/ LoadStage2Results
    \/ NoImagesFound
    \/ ExtractAllMetadata
    \/ ExtractAllMetadataThrows
    \/ StartFirstGroup
    \/ AddToCurrentGroup
    \/ StartNewGroup
    \/ FinishClustering
    \/ RefineGroups
    \/ SelectRepresentatives

Spec == Init /\ [][Next]_vars

\* ================================================================ claims
\* The clusters the clusterer has produced so far: the closed ones and, while
\* the loop runs, the current one.
ClustererGroups ==
    IF pc = "cluster" /\ currentGroup # NoGroup
    THEN Append(groups, currentGroup)
    ELSE groups

Refined == pc \in {"select", "done"}

FileCount(gs) == SumSeq([k \in 1..Len(gs) |-> Len(gs[k].files)])

\* Number of places of the cluster list gs that hold the record image.
Occurrences(gs, image) ==
    SumSeq([k \in 1..Len(gs) |->
              Cardinality({j \in 1..Len(gs[k].files) :
                              gs[k].files[j] = image})])

DuplicateIdsOf(files) ==
    {files[j].duplicateGroupId : j \in 1..Len(files)} \ {0}

CountWithDuplicateId(files, id) ==
    Cardinality({j \in 1..Len(files) : files[j].duplicateGroupId = id})

SortedByTimestamp(files) ==
    \A j \in 1..(Len(files) - 1) : files[j].timestamp <= files[j + 1].timestamp

\* Some warning of severity 'high' names the image and a file of the group.
HighWarningNames(group, image) ==
    /\ stage2Results.present
    /\ \E w \in Range(stage2Results.groupingWarnings) :
          /\ w.severity = "high"
          /\ image.fileName \in w.images
          /\ \E f \in Range(group.files) : f.fileName \in w.images

SharesDuplicateId(group, image) ==
    /\ image.duplicateGroupId # 0
    /\ \E f \in Range(group.files) :
          f.duplicateGroupId = image.duplicateGroupId

\* The clusterer is about to decide on the next record, with a current group.
Deciding == pc = "cluster" /\ idx < Len(imageMetadata) /\ currentGroup # NoGroup

NextImage == imageMetadata[idx + 1]

WholeMinutesToNext ==
    DifferenceInMinutes(NextImage.timestamp, currentGroup.lastTimestamp)

\* The next record is appended to the current group.
Appended ==
    /\ groups' = groups
    /\ currentGroup'.name = currentGroup.name
    /\ currentGroup'.files = Append(currentGroup.files, NextImage)

\* The current group is closed and the next record opens a new one.
OpenedNew ==
    /\ groups' = Append(groups, currentGroup)
    /\ currentGroup'.files = <<NextImage>>

\* The clusterer has just closed a group and opened one with the record r:
\* prev is the closed group.
JustOpened ==
    /\ pc = "cluster"
    /\ currentGroup # NoGroup
    /\ Len(groups) >= 1
    /\ Len(currentGroup.files) = 1

\* C1. Coverage: after createTemporalGroups and refineGroupsWithSimilarity
\* every input record is in the files of exactly one final cluster, exactly
\* once, and the final clusters hold nothing else.
C1_Coverage ==
    Refined =>
        /\ FileCount(finalGroups) = Len(imageMetadata)
        /\ \A i \in 1..Len(imageMetadata) :
              Occurrences(finalGroups, imageMetadata[i]) = 1

\* A run with a signal index whose clusterer output was split.
C1_Witness ==
    /\ pc = "done"
    /\ stage2Results.present
    /\ Len(finalGroups) >= 2
    /\ \E k \in 1..Len(finalGroups) : finalGroups[k].name.part > 0
    /\ \E i \in 1..Len(imageMetadata) : imageMetadata[i].duplicateGroupId # 0

\* C2 (as claimed). Duplicate integrity: two records that share a
\* duplicateGroupId are in the same final cluster.
C2_DuplicateIntegrity ==
    Refined =>
        \A a \in 1..Len(imageMetadata), b \in 1..Len(imageMetadata) :
            ( /\ imageMetadata[a].duplicateGroupId # 0
              /\ imageMetadata[a].duplicateGroupId
                     = imageMetadata[b].duplicateGroupId )
            => \E k \in 1..Len(finalGroups) :
                  /\ imageMetadata[a] \in Range(finalGroups[k].files)
                  /\ imageMetadata[b] \in Range(finalGroups[k].files)

\* C3 (as claimed). Size bound: a final cluster has at most 25 files unless
\* it holds a duplicate group of more than 25 members.
C3_SizeBoundAsClaimed ==
    Refined =>
        \A k \in 1..Len(finalGroups) :
            \/ Len(finalGroups[k].files) <= DefaultMaxSize
            \/ \E id \in DuplicateIdsOf(finalGroups[k].files) :
                  CountWithDuplicateId(finalGroups[k].files, id)
                      > DefaultMaxSize

\* A cluster is one duplicate group of more than 25 members and nothing else.
OversizedDuplicateSet(files) ==
    /\ Len(files) > DefaultMaxSize
    /\ files[1].duplicateGroupId # 0
    /\ \A j \in 1..Len(files) :
          files[j].duplicateGroupId = files[1].duplicateGroupId

\* C3 (amended). A final cluster the splitter did not produce has at most 50
\* files; a final cluster the splitter produced has at most 25 files unless
\* it consists of one duplicate group that alone has more than 25 members.
C3_SizeBound ==
    Refined =>
        \A k \in 1..Len(finalGroups) :
            IF finalGroups[k].name.part = 0
            THEN Len(finalGroups[k].files) <= SplitThreshold
            ELSE \/ Len(finalGroups[k].files) <= DefaultMaxSize
                 \/ OversizedDuplicateSet(finalGroups[k].files)

\* A split whose sub-clusters include a full one of 25 files with
\* standalone files and an oversized duplicate set.
C3_Witness ==
    /\ pc = "done"
    /\ \E k \in 1..Len(finalGroups) :
          /\ finalGroups[k].name.part > 0
          /\ OversizedDuplicateSet(finalGroups[k].files)
    /\ \E k \in 1..Len(finalGroups) :
          /\ finalGroups[k].name.part > 0
          /\ Len(finalGroups[k].files) = DefaultMaxSize
          /\ CountWithDuplicateId(finalGroups[k].files, 0) > 0

\* C4. Representative totals: the representatives that carry a final
\* cluster's name number (distinct duplicateGroupIds of its files) +
\* min(3, files without a duplicateGroupId).
C4_RepresentativeTotals ==
    pc = "done" =>
        \A k \in 1..Len(finalGroups) :
            Cardinality({j \in 1..Len(representatives) :
                            representatives[j].groupName = finalGroups[k].name})
            = Cardinality(DuplicateIdsOf(finalGroups[k].files))
              + Min(3, CountWithDuplicateId(finalGroups[k].files, 0))

\* A cluster with two duplicate groups and more than 3 standalone files.
C4_Witness ==
    /\ pc = "done"
    /\ \E k \in 1..Len(finalGroups) :
          /\ Cardinality(DuplicateIdsOf(finalGroups[k].files)) = 2
          /\ CountWithDuplicateId(finalGroups[k].files, 0) > 3

\* C5 (as claimed). Ordering inside clusters: the files of every cluster,
\* of the clusterer at every step and of the final list, ascend by timestamp.
C5_SortedInsideClusters ==
    /\ \A k \in 1..Len(ClustererGroups) :
          SortedByTimestamp(ClustererGroups[k].files)
    /\ \A k \in 1..Len(finalGroups) : SortedByTimestamp(finalGroups[k].files)

\* C6 (as claimed). Ordering of clusters: the final clusters ascend by the
\* timestamp of their first file.
C6_ClustersAscending ==
    Refined =>
        \A k \in 1..(Len(finalGroups) - 1) :
            finalGroups[k].files[1].timestamp
                <= finalGroups[k + 1].files[1].timestamp

\* Adjacent files of a clusterer-produced cluster are at most 60 whole
\* minutes apart.
AdjacentWithinCeiling ==
    \A k \in 1..Len(ClustererGroups) :
        \A j \in 1..(Len(ClustererGroups[k].files) - 1) :
            DifferenceInMinutes(ClustererGroups[k].files[j + 1].timestamp,
                                ClustererGroups[k].files[j].timestamp)
                <= maxTimeGap

C8_HardVeto ==
    [][( /\ Deciding
         /\ HighWarningNames(currentGroup, NextImage)
         /\ ~SharesDuplicateId(currentGroup, NextImage) ) => OpenedNew]_vars

\* The veto alone separated the record: it is 30 s after the closed cluster,
\* has the exposure of all its files, and is named with only one of them.
C8_Witness ==
    /\ JustOpened
    /\ LET prev == groups[Len(groups)]
           r    == currentGroup.files[1]
       IN  /\ HighWarningNames(prev, r)
           /\ ~SharesDuplicateId(prev, r)
           /\ Len(prev.files) = 2
           /\ r.timestamp - prev.lastTimestamp = 1
           /\ \A f \in Range(prev.files) : f.exposure = r.exposure

\* C9 (as claimed). Veto wins: two records that share a duplicateGroupId and
\* are named by one high-severity warning are never in the same cluster.
C9_VetoWins ==
    \A k \in 1..Len(ClustererGroups) :
        \A m \in Range(ClustererGroups[k].files),
           r \in Range(ClustererGroups[k].files) :
            ( /\ m.fileName # r.fileName
              /\ m.duplicateGroupId # 0
              /\ m.duplicateGroupId = r.duplicateGroupId )
            => ~ ( /\ stage2Results.present
                   /\ \E w \in Range(stage2Results.groupingWarnings) :
                         /\ w.severity = "high"
                         /\ m.fileName \in w.images
                         /\ r.fileName \in w.images )

\* C10. Duplicate-continuity override: with a signal index, a record within
\* 60 minutes that shares its duplicateGroupId with a member of the current
\* cluster, and that no high-severity warning names with a member, is
\* appended to the current cluster.
C10_DuplicateOverride ==
    [][( /\ Deciding
         /\ stage2Results.present
         /\ Abs(WholeMinutesToNext) <= 60
         /\ SharesDuplicateId(currentGroup, NextImage)
         /\ ~HighWarningNames(currentGroup, NextImage) ) => Appended]_vars

\* A record of ISO 3200 has joined a cluster of ISO 100 files that holds a
\* duplicate of its group, although a high-severity warning names it with a
\* file of an earlier cluster.
C10_Witness ==
    /\ pc = "cluster"
    /\ currentGroup # NoGroup
    /\ stage2Results.present
    /\ Len(currentGroup.files) >= 2
    /\ LET n      == Len(currentGroup.files)
           r      == currentGroup.files[n]
           before == [files |-> SubSeq(currentGroup.files, 1, n - 1)]
       IN  /\ SharesDuplicateId(before, r)
           /\ r.exposure.iso = 3200
           /\ \A f \in Range(before.files) : f.exposure.iso = 100
           /\ ~HighWarningNames(before, r)
           /\ \E w \in Range(stage2Results.groupingWarnings) :
                 w.severity = "high" /\ r.fileName \in w.images

\* Values of the timeThreshold option: below the default, the default, and
\* above the ceiling.
TimeThresholds == {1, defaultTimeThreshold, 2 * maxTimeGap}

C12_SplitterIdempotentAsClaimed ==
    pc = "refine" =>
        \A k \in 1..Len(groups) :
            Len(groups[k].files) <= DefaultMaxSize =>
                /\ splitLargeGroupIntelligently(groups[k], stage2Results,
                                                DefaultMaxSize) = <<groups[k]>>
                /\ splitLargeGroup(groups[k], DefaultMaxSize) = <<groups[k]>>

\* C12 (amended). refineGroupsWithSimilarity returns a cluster of at most 50
\* files unchanged (same name, no parentGroup, same files).  The splitters
\* have no size check of their own: called with maxSize = 25 on a cluster of
\* at most 25 files, each returns one sub-cluster that holds the files of the
\* cluster (splitLargeGroup in the same order), is named <name>_Part1 and
\* has the cluster's name as parentGroup.
C12_SmallClustersUnchanged ==
    /\ Refined =>
          \A k \in 1..Len(groups) :
              Len(groups[k].files) <= SplitThreshold =>
                  \E j \in 1..Len(finalGroups) : finalGroups[j] = groups[k]
    /\ pc = "refine" =>
          \A k \in 1..Len(groups) :
              Len(groups[k].files) <= DefaultMaxSize =>
                  LET smart == splitLargeGroupIntelligently(
                                   groups[k], stage2Results, DefaultMaxSize)
                      basic == splitLargeGroup(groups[k], DefaultMaxSize)
                      part1 == [groups[k].name EXCEPT !.part = 1]
                  IN  /\ Len(smart) = 1
                      /\ Len(basic) = 1
                      /\ basic[1].files = groups[k].files
                      /\ Len(smart[1].files) = Len(groups[k].files)
                      /\ Range(smart[1].files) = Range(groups[k].files)
                      /\ smart[1].name = part1
                      /\ basic[1].name = part1
                      /\ smart[1].parentGroup = groups[k].name
                      /\ basic[1].parentGroup = groups[k].name

\* A cluster of more than 25 and at most 50 files, with duplicates, has
\* passed the refinement.
C12_Witness ==
    /\ pc = "done"
    /\ stage2Results.present
    /\ \E k \in 1..Len(groups) :
          /\ Len(groups[k].files) > DefaultMaxSize
          /\ Len(groups[k].files) <= SplitThreshold
          /\ DuplicateIdsOf(groups[k].files) # {}
          /\ \E j \in 1..Len(finalGroups) : finalGroups[j] = groups[k]

\* Values of the maxSize parameter of the splitters: the default, and two
\* that the short clusters exceed.
SplitSizes == {1, 2, DefaultMaxSize}

\* All files are of one duplicate group.
OneDuplicateSet(files) ==
    /\ files[1].duplicateGroupId # 0
    /\ \A j \in 1..Len(files) :
          files[j].duplicateGroupId = files[1].duplicateGroupId

\* C13. The duplicate-aware splitter never splits a duplicate set: with a
\* signal index, splitLargeGroupIntelligently puts all files of a cluster
\* that share a duplicateGroupId in the same sub-cluster, and a sub-cluster
\* has more than maxSize files only if it consists of one duplicate set.
C13_DuplicateSetsKept ==
    (pc = "refine" /\ stage2Results.present) =>
        \A k \in 1..Len(groups), maxSize \in SplitSizes :
            LET subGroups == splitLargeGroupIntelligently(
                                 groups[k], stage2Results, maxSize)
            IN  /\ \A id \in DuplicateIdsOf(groups[k].files) :
                      \E j \in 1..Len(subGroups) :
                          CountWithDuplicateId(subGroups[j].files, id)
                              = CountWithDuplicateId(groups[k].files, id)
                /\ \A j \in 1..Len(subGroups) :
                      Len(subGroups[j].files) > maxSize =>
                          OneDuplicateSet(subGroups[j].files)

\* The run has split a cluster that holds a duplicate set of more than 25
\* files, a second duplicate set and standalone files: the first set is a
\* sub-cluster of its own.
C13_Witness ==
    /\ pc = "select"
    /\ stage2Results.present
    /\ Len(groups) = 1
    /\ Cardinality(DuplicateIdsOf(groups[1].files)) = 2
    /\ CountWithDuplicateId(groups[1].files, 0) > 0
    /\ \E j \in 1..Len(finalGroups) :
          /\ finalGroups[j].parentGroup = groups[1].name
          /\ Len(finalGroups[j].files) > DefaultMaxSize
          /\ OneDuplicateSet(finalGroups[j].files)

\* An index without a duplicateGroups key.
NoDuplicateData == [present |-> TRUE, groupingWarnings |-> <<>>]

\* subGroups are the contiguous chunks of maxSize files of the group, in
\* order, named <name>_Part1, <name>_Part2, ...
ContiguousChunks(subGroups, group, maxSize) ==
    LET n == Len(group.files)
        c == Len(subGroups)
    IN  /\ (c - 1) * maxSize < n
        /\ n <= c * maxSize
        /\ \A j \in 1..c :
              /\ subGroups[j].name = [group.name EXCEPT !.part = j]
              /\ Len(subGroups[j].files)
                     = IF j < c THEN maxSize ELSE n - (c - 1) * maxSize
              /\ \A i \in 1..Len(subGroups[j].files) :
                    subGroups[j].files[i]
                        = group.files[(j - 1) * maxSize + i]

\* C14. Splitting without signal data is contiguous chunking: without a
\* signal index, or with one that has no duplicateGroups, splitting a
\* cluster of n > maxSize files gives ceil(n / maxSize) sub-clusters, the
\* k-th holding the k-th run of maxSize files in the original order (the
\* last one the rest), named <name>_Part<k>.
C14_ContiguousChunks ==
    pc = "refine" =>
        \A k \in 1..Len(groups), maxSize \in SplitSizes :
            Len(groups[k].files) > maxSize =>
                /\ ContiguousChunks(
                       splitLargeGroupIntelligently(groups[k], NoStage2,
                                                    maxSize),
                       groups[k], maxSize)
                /\ ContiguousChunks(
                       splitLargeGroupIntelligently(groups[k], NoDuplicateData,
                                                    maxSize),
                       groups[k], maxSize)
                /\ ContiguousChunks(splitLargeGroup(groups[k], maxSize),
                                    groups[k], maxSize)

\* A run without a report has split a cluster of more than 50 files in
\* three: 25, 25 and the rest.
C14_Witness ==
    /\ pc = "select"
    /\ ~stage2Results.present
    /\ Len(groups) = 1
    /\ Len(groups[1].files) > SplitThreshold
    /\ Len(finalGroups) = 3
    /\ ContiguousChunks(finalGroups, groups[1], DefaultMaxSize)
    /\ Len(finalGroups[3].files) < DefaultMaxSize

\* The records extractAllMetadata returned for the file.
RecordsOf(file) ==
    {i \in 1..Len(imageMetadata) : imageMetadata[i].fileName = file.fileName}

\* C15 (as claimed). Extraction failure never propagates: whatever read
\* error a file raises (EXIF parse or fs.stat), extractAllMetadata returns
\* one record per file, the record of a file that raised an error has camera
\* 'Unknown', the file's modification time and fallback = true, and the run
\* does not fail.
C15_ExtractionNeverFails ==
    (pc \notin {"load", "extract"} /\ Len(imageFiles) > 0) =>
        /\ result # [success |-> FALSE, filesProcessed |-> 0]
        /\ Len(imageMetadata) = Len(imageFiles)
        /\ \A f \in Range(imageFiles) :
              /\ Cardinality(RecordsOf(f)) = 1
              /\ f.read # "ok" =>
                    \A i \in RecordsOf(f) :
                        /\ imageMetadata[i].camera = "Unknown"
                        /\ imageMetadata[i].timestamp = f.mtime
                        /\ imageMetadata[i].fallback

\* culling_report.json does not exist, or readJson throws on it.
ReportUnusable ==
    IF cullingReport.exists THEN ~cullingReport.readable ELSE TRUE

\* What a run on the same files returns when there is no report at all.
RunWithoutReport ==
    IF Len(imageFiles) = 0
    THEN [ result          |-> [success |-> TRUE, filesProcessed |-> 0,
                                groupsCreated |-> 0],
           finalGroups     |-> <<>>,
           representatives |-> <<>> ]
    ELSE IF \E i \in 1..Len(imageFiles) : StatFails(imageFiles[i])
    THEN [ result          |-> [success |-> FALSE, filesProcessed |-> 0],
           finalGroups     |-> <<>>,
           representatives |-> <<>> ]
    ELSE LET metadata == extractAllMetadata(imageFiles, NoStage2)
             refined  == refineGroupsWithSimilarity(
                             createTemporalGroups(metadata,
                                                  defaultTimeThreshold,
                                                  NoStage2),
                             NoStage2)
         IN  [ result          |-> [success |-> TRUE,
                                    filesProcessed |-> Len(imageFiles),
                                    groupsCreated |-> Len(refined)],
               finalGroups     |-> refined,
               representatives |-> selectGroupRepresentatives(refined,
                                                              NoStage2) ]

\* C16. Absent or unparseable prior report never aborts grouping: when
\* culling_report.json does not exist or cannot be read, loadStage2Results
\* returns null and the run goes on, no record carries a qualityRating, a
\* duplicateGroupId or isDuplicateBest, and the run returns the clusters and
\* representatives of a run on the same files with no report at all.
C16_UnusableReportIgnored ==
    ReportUnusable =>
        /\ pc # "load" => stage2Results = NoStage2
        /\ \A i \in 1..Len(imageMetadata) :
              /\ imageMetadata[i].qualityRating = 0
              /\ imageMetadata[i].duplicateGroupId = 0
              /\ ~imageMetadata[i].isDuplicateBest
        /\ pc = "done" =>
              /\ result = RunWithoutReport.result
              /\ finalGroups = RunWithoutReport.finalGroups
              /\ representatives = RunWithoutReport.representatives

\* A run has finished with several clusters although the report, which
\* lists a duplicate group and ratings for its files, could not be read.
C16_Witness ==
    /\ pc = "done"
    /\ cullingReport.exists
    /\ ~cullingReport.readable
    /\ Len(cullingReport.duplicateGroups) > 0
    /\ Len(cullingReport.selectedFiles) > 0
    /\ result.success
    /\ Len(finalGroups) >= 2
    /\ Len(representatives) >= 2

\* C17. Empty input is not an error: a run that finds no image file reports
\* success with filesProcessed = 0 and groupsCreated = 0 and produces no
\* cluster and no representative; and on an empty list the clusterer, the
\* refinement and the selector each return an empty list.
C17_EmptyInput ==
    (pc = "done" /\ Len(imageFiles) = 0) =>
        /\ result = [success |-> TRUE, filesProcessed |-> 0,
                     groupsCreated |-> 0]
        /\ groups = <<>>
        /\ finalGroups = <<>>
        /\ representatives = <<>>
        /\ \A tt \in TimeThresholds :
              createTemporalGroups(<<>>, tt, stage2Results) = <<>>
        /\ refineGroupsWithSimilarity(<<>>, stage2Results) = <<>>
        /\ selectGroupRepresentatives(<<>>, stage2Results) = <<>>

\* A run on a directory that holds a report and no image file has returned.
C17_Witness ==
    /\ pc = "done"
    /\ Len(imageFiles) = 0
    /\ cullingReport.exists
    /\ stage2Results.present
    /\ result.success

\* Places of the cluster's files that hold a member of duplicate group id.
MembersOf(group, id) ==
    {j \in 1..Len(group.files) : group.files[j].duplicateGroupId = id}

\* The representatives emitted for duplicate group id of the cluster.
DuplicateRepsOf(group, id) ==
    {r \in Range(representatives) :
        r.groupName = group.name /\ r.duplicateGroupId = id}

\* The first member, in the cluster's file order, among those with the
\* highest rating.
FirstTopRated(group, id) ==
    CHOOSE j \in MembersOf(group, id) :
        /\ \A m \in MembersOf(group, id) :
              group.files[m].qualityRating <= group.files[j].qualityRating
        /\ \A m \in MembersOf(group, id) :
              group.files[m].qualityRating = group.files[j].qualityRating
                  => j <= m

\* C18. Representative of a duplicate group: for each duplicateGroupId in a
\* final cluster the representative is the member flagged isDuplicateBest if
\* the cluster holds one; otherwise the member with the highest
\* qualityRating, the first in the cluster's file order among those tied
\* for it.
C18_DuplicateRepresentative ==
    pc = "done" =>
        \A k \in 1..Len(finalGroups) :
            \A id \in DuplicateIdsOf(finalGroups[k].files) :
                LET group   == finalGroups[k]
                    flagged == {j \in MembersOf(group, id) :
                                   group.files[j].isDuplicateBest}
                IN  /\ DuplicateRepsOf(group, id) # {}
                    /\ \A r \in DuplicateRepsOf(group, id) :
                          IF flagged # {}
                          THEN \E j \in flagged :
                                  r.fileName = group.files[j].fileName
                          ELSE r.fileName
                                 = group.files[FirstTopRated(group, id)].fileName

\* No member of a duplicate group is flagged, its last two members tie for
\* the highest rating, and the earlier of the two is the representative.
C18_Witness ==
    /\ pc = "done"
    /\ \E k \in 1..Len(finalGroups) :
          \E id \in DuplicateIdsOf(finalGroups[k].files) :
              LET group == finalGroups[k]
                  top   == FirstTopRated(group, id)
              IN  /\ \A j \in MembersOf(group, id) :
                        ~group.files[j].isDuplicateBest
                  /\ \E j \in MembersOf(group, id) :
                        j < top
                  /\ \E j \in MembersOf(group, id) :
                        /\ j > top
                        /\ group.files[j].qualityRating
                               = group.files[top].qualityRating
                  /\ \E r \in DuplicateRepsOf(group, id) :
                        r.fileName = group.files[top].fileName

\* Places of the representative list that hold a standalone representative
\* of the cluster.
StandaloneRepsOf(group) ==
    {j \in 1..Len(representatives) :
        /\ representatives[j].groupName = group.name
        /\ ~representatives[j].isDuplicateRepresentative}

\* The files of the cluster without a duplicateGroupId.
StandaloneOf(group) ==
    {f \in Range(group.files) : f.duplicateGroupId = 0}

\* The standalone files of the cluster that are representatives.
SelectedOf(group) ==
    {f \in StandaloneOf(group) :
        \E j \in StandaloneRepsOf(group) :
            representatives[j].fileName = f.fileName}

\* C19. Standalone representatives are the top 3 by rating: the standalone
\* representatives of a final cluster (duplicateGroupId null, duplicateCount
\* 1) are min(3, s) distinct ones of its s files without a duplicateGroupId,
\* and no unselected standalone file of the cluster is rated higher than a
\* selected one, an unrated file ranking below every rated one.
C19_TopStandalone ==
    pc = "done" =>
        \A k \in 1..Len(finalGroups) :
            LET group == finalGroups[k]
                s     == Cardinality(StandaloneOf(group))
            IN  /\ Cardinality(StandaloneRepsOf(group)) = Min(3, s)
                /\ Cardinality(SelectedOf(group)) = Min(3, s)
                /\ \A j \in StandaloneRepsOf(group) :
                      /\ representatives[j].duplicateGroupId = 0
                      /\ representatives[j].duplicateCount = 1
                      /\ \E f \in StandaloneOf(group) :
                            /\ f.fileName = representatives[j].fileName
                            /\ f.qualityRating
                                   = representatives[j].qualityRating
                /\ \A f \in StandaloneOf(group) \ SelectedOf(group) :
                      \A g \in SelectedOf(group) :
                          f.qualityRating <= g.qualityRating

\* A cluster has more than 3 standalone files; an unrated one is left out
\* although it comes before a selected one, and the selected ones differ in
\* rating.
C19_Witness ==
    /\ pc = "done"
    /\ \E k \in 1..Len(finalGroups) :
          LET group == finalGroups[k]
              left  == StandaloneOf(group) \ SelectedOf(group)
          IN  /\ Cardinality(SelectedOf(group)) = 3
              /\ \E f \in left :
                    /\ f.qualityRating = 0
                    /\ \E g \in SelectedOf(group) : f.timestamp < g.timestamp
              /\ \E g, h \in SelectedOf(group) :
                    g.qualityRating < h.qualityRating

\* C20 (as claimed). One representative per duplicate group over the whole
\* run: when a run has returned its representatives, each duplicateGroupId
\* of the input records is the duplicateGroupId of exactly one of them.
C20_OneRepresentativePerDuplicateGroup ==
    (pc = "done" /\ result.success) =>
        \A id \in DuplicateIdsOf(imageMetadata) :
            Cardinality({j \in 1..Len(representatives) :
                            representatives[j].duplicateGroupId = id}) = 1

\* C21 (as claimed). duplicateCount is the size of the duplicate group: a
\* duplicate representative's duplicateCount is the number of input records
\* that carry its duplicateGroupId, and a standalone representative's is 1.
C21_DuplicateCount ==
    (pc = "done" /\ result.success) =>
        \A j \in 1..Len(representatives) :
            IF representatives[j].isDuplicateRepresentative
            THEN representatives[j].duplicateCount
                     = CountWithDuplicateId(imageMetadata,
                                            representatives[j].duplicateGroupId)
            ELSE representatives[j].duplicateCount = 1

\* The files of the clusters of gs, concatenated in the order of gs.
FilesInOrder(gs) == ConcatAll([k \in 1..Len(gs) |-> gs[k].files])

\* C22. The clusterer is order-preserving and contiguous: at every step of
\* createTemporalGroups the files of its clusters, concatenated in output
\* order, are the input records read so far, in input order (so each cluster
\* is a contiguous run of the input and the returned list concatenates to the
\* whole input), and a cluster already pushed to the output list is never
\* changed again.
C22_OrderPreservingContiguous ==
    [][ pc = "cluster" =>
          /\ Len(groups') >= Len(groups)
          /\ SubSeq(groups', 1, Len(groups)) = groups
          /\ FilesInOrder(ClustererGroups') = SubSeq(imageMetadata', 1, idx')
      ]_vars

\* The clusterer has returned at least two clusters, and one that was closed
\* before the end holds two or more files.
C22_Witness ==
    /\ pc = "refine"
    /\ Len(groups) >= 2
    /\ \E k \in 1..(Len(groups) - 1) : Len(groups[k].files) >= 2
    /\ FilesInOrder(groups) = imageMetadata

\* The members of the group that have an ISO.
MembersWithIso(group) ==
    {f \in Range(group.files) : ~f.fallback /\ f.exposure.iso # 0}

RECURSIVE TotalOf(_, _)
\* Sum of field(f) over the records of the set fs.
TotalOf(fs, field) ==
    IF fs = {} THEN 0
    ELSE LET f == CHOOSE f \in fs : TRUE
         IN  (IF field = "iso" THEN f.exposure.iso ELSE f.exposure.aperture)
             + TotalOf(fs \ {f}, field)

\* |x - total / count| <= tolerance, for count > 0, without division.
WithinOfMean(x, total, count, tolerance) ==
    /\ count * x - total <= count * tolerance
    /\ total - count * x <= count * tolerance

\* The rule of C23 for the current group and the record r; the aperture of a
\* member that has an ISO and no aperture enters the mean as 0.
ExposureRule(group, r) ==
    LET members == MembersWithIso(group)
        count   == Cardinality(members)
    IN  IF r.fallback \/ count = 0
        THEN TRUE
        ELSE /\ \/ r.exposure.iso = 0
                \/ WithinOfMean(r.exposure.iso, TotalOf(members, "iso"),
                                count, IsoTolerance)
             /\ \/ r.exposure.aperture = 0
                \/ WithinOfMean(r.exposure.aperture,
                                TotalOf(members, "aperture"),
                                count, ApertureTolerance)

\* The decision on the next record rests on the exposure check alone: no
\* signal index, and the record is within the 60-minute ceiling.
ExposureDecides ==
    /\ Deciding
    /\ ~stage2Results.present
    /\ Abs(WholeMinutesToNext) <= maxTimeGap

\* C23. Exposure similarity rule: when the record r has exposure data and
\* some member of the current cluster has an ISO, r is exposure-similar iff
\* (r has no ISO or |r.iso - avgISO| <= 400) and (r has no aperture or
\* |r.aperture - avgAperture| <= 1.5), the means being taken over exactly the
\* members that have an ISO; when r has no exposure object or no member has
\* an ISO, r is exposure-similar.  Where the exposure check decides, the
\* clusterer appends r exactly when the rule says similar.
C23_ExposureRule ==
    [][ ExposureDecides =>
          /\ isExposureSimilar(currentGroup, NextImage)
                 <=> ExposureRule(currentGroup, NextImage)
          /\ Appended <=> ExposureRule(currentGroup, NextImage)
          /\ OpenedNew <=> ~ExposureRule(currentGroup, NextImage)
      ]_vars

\* A record at ISO 500 has joined a cluster of a record without ISO and a
\* record at ISO 100: the mean is over the one member with an ISO, and the
\* distance is exactly 400.
C23_Witness ==
    /\ pc = "cluster"
    /\ ~stage2Results.present
    /\ currentGroup # NoGroup
    /\ Len(currentGroup.files) = 3
    /\ ~currentGroup.files[1].fallback
    /\ currentGroup.files[1].exposure.iso = 0
    /\ currentGroup.files[2].exposure.iso = 100
    /\ currentGroup.files[3].exposure.iso = 500

\* The known values of an exposure field among the records fs.
KnownValues(fs, field) ==
    { IF field = "iso" THEN f.exposure.iso ELSE f.exposure.aperture :
        f \in {g \in fs : ~g.fallback} } \ {0}

\* The members of the group and r differ in exposure only by missing fields.
OnlyMissingFieldsDiffer(group, r) ==
    /\ Cardinality(KnownValues(Range(group.files) \cup {r}, "iso")) <= 1
    /\ Cardinality(KnownValues(Range(group.files) \cup {r}, "aperture")) <= 1

\* C24 (as claimed). Missing exposure fields never cause separation: when
\* the record r and the members of the cluster differ in exposure only in
\* that an ISO or an aperture is missing on r or on a member, the exposure
\* check says similar and r joins the cluster; a member with an ISO and no
\* aperture does not separate a later record at f/2.8.
C24_MissingFieldsNeverSeparate ==
    [][ (ExposureDecides /\ OnlyMissingFieldsDiffer(currentGroup, NextImage))
          => (isExposureSimilar(currentGroup, NextImage) /\ Appended)
      ]_vars

\* m is the number of whole minutes from the timestamp a to the later b.
WholeMinutesBetween(m, a, b) == 2 * m <= b - a /\ b - a < 2 * m + 2

\* startTimestamp and lastTimestamp are those of the first and last file.
EndsFromFiles(group) ==
    /\ group.startTimestamp = group.files[1].timestamp
    /\ group.lastTimestamp = group.files[Len(group.files)].timestamp

\* C25 (as claimed). For every cluster of the clusterer, singletons included,
\* startTimestamp and lastTimestamp are those of its first and last file and
\* timeSpan is defined and is the whole minutes between them.
C25_TimeSpanAlwaysDefined ==
    \A k \in 1..Len(ClustererGroups) :
        LET group == ClustererGroups[k]
        IN  /\ EndsFromFiles(group)
            /\ group.hasTimeSpan
            /\ WholeMinutesBetween(group.timeSpan, group.startTimestamp,
                                   group.lastTimestamp)

\* C25 (amended). For every cluster of the clusterer startTimestamp and
\* lastTimestamp are those of its first and last file; a cluster of two or
\* more files has timeSpan equal to the whole minutes between them, and a
\* singleton cluster has no timeSpan (createNewGroup sets none).
C25_TimeSpanBookkeeping ==
    \A k \in 1..Len(ClustererGroups) :
        LET group == ClustererGroups[k]
        IN  /\ EndsFromFiles(group)
            /\ group.hasTimeSpan <=> Len(group.files) >= 2
            /\ group.hasTimeSpan =>
                  WholeMinutesBetween(group.timeSpan, group.startTimestamp,
                                      group.lastTimestamp)

\* The clusterer has returned a singleton cluster without timeSpan and a
\* cluster of two files 60 min 30 s apart, with timeSpan 60.
C25_Witness ==
    /\ pc = "refine"
    /\ \E k \in 1..Len(groups) :
          Len(groups[k].files) = 1 /\ ~groups[k].hasTimeSpan
    /\ \E k \in 1..Len(groups) :
          /\ Len(groups[k].files) = 2
          /\ groups[k].hasTimeSpan
          /\ groups[k].lastTimestamp - groups[k].startTimestamp
                 = 2 * maxTimeGap + 1
          /\ groups[k].timeSpan = maxTimeGap

\* The sub-clusters among the final clusters, by place.
SubClusters == {j \in 1..Len(finalGroups) : finalGroups[j].parentGroup # NoParent}

\* C26 (as claimed). Every sub-cluster of the splitter has parentGroup equal
\* to the original cluster's name, the name of the original with part number
\* n = 1, 2, ... in creation order without gaps, startTimestamp equal to the
\* earliest and lastTimestamp to the latest timestamp among its files,
\* timeSpan >= 0, and cameras equal to the set of its files' cameras.
C26_SubClusterMetadata ==
    Refined =>
        \A j \in SubClusters :
            LET sub     == finalGroups[j]
                earlier == {i \in SubClusters :
                              i < j /\ finalGroups[i].parentGroup = sub.parentGroup}
            IN  /\ \E k \in 1..Len(groups) :
                      /\ groups[k].name = sub.parentGroup
                      /\ Len(groups[k].files) > SplitThreshold
                /\ sub.name = [sub.parentGroup EXCEPT
                                  !.part = Cardinality(earlier) + 1]
                /\ \A f \in Range(sub.files) :
                      /\ sub.startTimestamp <= f.timestamp
                      /\ f.timestamp <= sub.lastTimestamp
                /\ \E f \in Range(sub.files) : f.timestamp = sub.startTimestamp
                /\ \E f \in Range(sub.files) : f.timestamp = sub.lastTimestamp
                /\ sub.hasTimeSpan /\ sub.timeSpan >= 0
                /\ sub.cameras = {f.camera : f \in Range(sub.files)}

\* The representative rep names a file of the cluster of gs that bears its
\* groupName.
NamesFileOfItsCluster(rep, gs) ==
    /\ \E k \in 1..Len(gs) : gs[k].name = rep.groupName
    /\ \A k \in 1..Len(gs) :
          gs[k].name = rep.groupName =>
              \E f \in Range(gs[k].files) : f.fileName = rep.fileName

\* C27. Representative selection is read-only on clusters:
\* selectGroupRepresentatives leaves every cluster (files in membership and
\* order, name, timestamps) as it was, although it sorts candidates by rating,
\* and every representative's fileName is a file of the cluster named by its
\* groupName.
C27_SelectionReadOnly ==
    [][ pc = "select" =>
          /\ finalGroups' = finalGroups
          /\ \A j \in 1..Len(representatives') :
                NamesFileOfItsCluster(representatives'[j], finalGroups)
      ]_vars

\* The selection has run on a cluster whose standalone files are rated out
\* of order: the first representative is a later, better rated file, and the
\* cluster's files are still in time order.
C27_Witness ==
    /\ pc = "done"
    /\ result.success
    /\ Len(finalGroups) = 1
    /\ Len(representatives) >= 2
    /\ \A f \in Range(finalGroups[1].files) : f.duplicateGroupId = 0
    /\ representatives[1].fileName # finalGroups[1].files[1].fileName
    /\ representatives[1].qualityRating > finalGroups[1].files[1].qualityRating
    /\ SortedByTimestamp(finalGroups[1].files)
    /\ finalGroups[1].files = imageMetadata

\* The record of the returned list made from the file named name.
RecordNamed(name) ==
    CHOOSE r \in Range(imageMetadata) : r.fileName = name

\* C28 (as claimed). Signal enrichment reaches every record: with a signal
\* index present, after extractAllMetadata every record whose file is listed
\* in a duplicate group of the report carries that group's id as
\* duplicateGroupId, and its rating when the report rates it, also when the
\* record comes from the fallback path after a metadata read error.
C28_EnrichmentReachesEveryRecord ==
    (stage2Results.present /\ pc \in {"cluster", "refine", "select", "done"}
       /\ Len(imageMetadata) = Len(imageFiles)) =>
        /\ \A d \in Range(cullingReport.duplicateGroups) :
              \A name \in d.images :
                  RecordNamed(name).duplicateGroupId = d.group_id
        /\ \A sel \in Range(cullingReport.selectedFiles) :
              RecordNamed(sel.file).qualityRating = sel.rating

\* The final clusters that the temporal cluster group is replaced by.
RefinedFrom(group) ==
    IF Len(group.files) > SplitThreshold
    THEN splitLargeGroupIntelligently(group, stage2Results, DefaultMaxSize)
    ELSE <<group>>

\* The number of final clusters that come from the first k temporal clusters.
RefinedBefore(k) ==
    SumSeq([i \in 1..k |-> Len(RefinedFrom(groups[i]))])

\* C29. refineGroupsWithSimilarity passes every cluster of at most 50 files
\* through as the same cluster, replaces every cluster of more than 50 files
\* by the sub-clusters of the splitter with maxSize 25, and keeps the
\* relative order of the original clusters: the final list is made of one
\* stretch per temporal cluster, in the order of the temporal clusters.
C29_SplitExactlyAboveThreshold ==
    Refined =>
        /\ Len(finalGroups) = RefinedBefore(Len(groups))
        /\ \A k \in 1..Len(groups) :
              LET stretch == SubSeq(finalGroups, RefinedBefore(k - 1) + 1,
                                    RefinedBefore(k))
              IN  IF Len(groups[k].files) <= SplitThreshold
                  THEN stretch = <<groups[k]>>
                  ELSE /\ stretch = splitLargeGroupIntelligently(
                                        groups[k], stage2Results,
                                        DefaultMaxSize)
                       /\ \A j \in 1..Len(stretch) :
                             stretch[j].parentGroup = groups[k].name

\* A cluster of one file is followed by a cluster of 51 files: the first is
\* passed through and the second is replaced by three sub-clusters after it.
C29_Witness ==
    /\ pc = "done"
    /\ Len(groups) = 2
    /\ Len(groups[1].files) = 1
    /\ Len(groups[2].files) = SplitThreshold + 1
    /\ Len(finalGroups) = 4
    /\ finalGroups[1] = groups[1]
    /\ \A j \in 2..4 : finalGroups[j].parentGroup = groups[2].name

IsHighSeverity(warning) == warning.severity = "high"

\* The index s2 with the warnings ws in place of its own.
WithWarnings(s2, ws) == [s2 EXCEPT !.groupingWarnings = ws]

\* A warning of severity 'low' that names every file of the input.
LowWarningOnAll ==
    [ images   |-> {imageMetadata[i].fileName : i \in 1..Len(imageMetadata)},
      severity |-> "low" ]

\* C30. Low-severity warnings never affect grouping: when the report holds
\* warnings of a severity other than 'high', the clusters createTemporalGroups
\* produces are those it produces with only the 'high' warnings among them;
\* and the clusters are those it produces when a low-severity warning naming
\* every file is put before and after the report's warnings.
C30_LowWarningsIgnored ==
    (pc = "refine" /\ stage2Results.present) =>
        LET ws       == stage2Results.groupingWarnings
            highOnly == SelectSeq(ws, IsHighSeverity)
        IN  /\ \/ highOnly = ws
               \/ groups = createTemporalGroups(
                               imageMetadata, defaultTimeThreshold,
                               WithWarnings(stage2Results, highOnly))
            /\ groups = createTemporalGroups(
                            imageMetadata, defaultTimeThreshold,
                            WithWarnings(stage2Results,
                                         <<LowWarningOnAll>> \o ws
                                             \o <<LowWarningOnAll>>))

\* The report holds a low-severity warning that names two files, and the
\* clusterer has returned them in one cluster.
C30_Witness ==
    /\ pc = "refine"
    /\ stage2Results.present
    /\ \E w \in Range(stage2Results.groupingWarnings) :
          /\ w.severity = "low"
          /\ Cardinality(w.images) = 2
          /\ \E k \in 1..Len(groups) :
                w.images \subseteq {f.fileName : f \in Range(groups[k].files)}

====
